---- MODULE Spec2Model ----
(***************************************************************************)
(* Live practice session controllers of the speech-coaching application:   *)
(*   React   : src/components/LivePractice.tsx                             *)
(*   Angular : src/app/components/live-practice/live-practice.component.ts *)
(* Both are modelled by the same actions; the variable impl says which     *)
(* controller a behaviour is about and the actions branch on it wherever   *)
(* the two sources differ.                                                 *)
(*                                                                         *)
(* Analysis service of the same application:                               *)
(*   React   : src/services/geminiService.ts                               *)
(*   Angular : src/app/services/gemini.service.ts                          *)
(* generateContentWithRetry, analyzeAudio and generateComparisonReport are *)
(* the same code in both.                                                  *)
(***************************************************************************)
EXTENDS Integers, Sequences, FiniteSets, TLC

\* ---------------------------------------------------------------- bounds
\* startConversation calls per behaviour of the lifecycle specification
MaxSessions == 2
\* startConversation calls per behaviour of the transcript specification
TranscriptSessions == 1
\* transcription fragments one transcript holds
MaxText == 3
\* audio buffers decoded per behaviour
MaxBuffers == 2
\* largest value of the audio clock
MaxClock == 3
\* dimension entries one payload holds
MaxDims == 3
\* turns one transcript holds
MaxTurns == 2
\* bytes one byte string holds
MaxBytes == 4
\* samples one frame holds
MaxFrame == 2
\* frames the capture callback delivers
MaxCaptured == 2

\* ------------------------------------------------------------- constants
\* retries = 3, the default every caller of generateContentWithRetry uses
Retries == 3

\* ---------------------------------------------------------------- types
Impls == {"React", "Angular"}

ConversationState == {"idle", "connecting", "connected", "error", "ended"}

\* Life of one duplex session as the controller can observe it:
\*   none -> opening -> open -> errored -> closed, opening -> rejected
SessionPhase == {"none", "opening", "open", "errored", "closed", "rejected"}

\* Progress of the getUserMedia call made by a session's onopen callback
GumStatus == {"none", "pending", "done", "failed"}

Speakers == {"User", "AI"}

\* Texts of transcription fragments; a transcript text is the sequence of
\* the fragments concatenated into it
Fragments == {"a", "b"}

\* Durations of decoded audio buffers, in ticks of the audio clock
Durations == {1, 2}

\* LiveServerMessage.serverContent: "none" and 0 stand for an absent field
Message == [inputTranscription : Fragments \cup {"none"},
            outputTranscription : Fragments \cup {"none"},
            turnComplete : BOOLEAN,
            audio : Durations \cup {0},
            interrupted : BOOLEAN]

NoMessage == [inputTranscription |-> "none", outputTranscription |-> "none",
              turnComplete |-> FALSE, audio |-> 0, interrupted |-> FALSE]

NoRun == [speaker |-> "none", text |-> <<>>, base |-> 0, closed |-> FALSE]

NoSession == [phase |-> "none", captured |-> "idle", gum |-> "none", closeRequested |-> 0]

\* ----------------------------------------------------------- Gemini service
\* React   : src/services/geminiService.ts
\* Angular : src/app/services/gemini.service.ts
\* The two services hold the same code; the line numbers that follow are
\* those of the React service.

\* What a rejected generateContent call carries: status and code are numbers
\* (0 = the field is absent) and message is the set of the searched texts
\* that error.message includes
Overloaded503 == [name |-> "ApiError", status |-> 503, code |-> 0, message |-> {}]
RateLimited429 == [name |-> "ApiError", status |-> 0, code |-> 429, message |-> {}]
Internal500 == [name |-> "ApiError", status |-> 500, code |-> 0, message |-> {}]
Message503 == [name |-> "Error", status |-> 0, code |-> 0, message |-> {"503"}]
BadRequest400 == [name |-> "ApiError", status |-> 400, code |-> 0, message |-> {}]
FetchFailed == [name |-> "TypeError", status |-> 0, code |-> 0, message |-> {}]
NoError == [name |-> "none", status |-> 0, code |-> 0, message |-> {}]

RemoteErrors == {Overloaded503, RateLimited429, Internal500, Message503, BadRequest400, FetchFailed}

isOverloaded(error) == error.status = 503 \/ error.code = 503 \/ "503" \in error.message
isRateLimited(error) == error.status = 429 \/ error.code = 429 \/ "429" \in error.message
isInternalError(error) == error.status = 500 \/ error.code = 500

\* The guard of the retry branch in the catch block of attempt i (0-based)
MayRetryAlways(error, i) == i < Retries - 1
MayRetryOnceMore(error, i) ==
    (isOverloaded(error) \/ isRateLimited(error) \/ isInternalError(error)) /\ i < Retries
MayRetry(error, i) ==
    (isOverloaded(error) \/ isRateLimited(error) \/ isInternalError(error)) /\ i < Retries - 1

\* (a variant that waits one second every time)
BackoffDelayConstant(i) == 1000
\* Math.pow(2, i) * 1000, in milliseconds
BackoffDelay(i) == (2 ^ i) * 1000

\* The object of a JSON payload; has = the properties the object carries.
\* Scores are in hundredths, fluency in hundredths of a percent, times in seconds.
EmptyObject == [has |-> {}, primarySpeakerLabel |-> "undefined", dimensions |-> <<>>,
                fluencySpeechRatePercentage |-> 0, conversation |-> <<>>, overallScore |-> 0]

\* What generateContent resolves with.  text: "json" = the text of the object
\* in body, "garbage" = a text JSON.parse rejects, "empty" = a text that trims
\* to '', "missing" = no text property; "undefined" = no response object
Response(text, body) == [text |-> text, body |-> body]
UndefinedResponse == Response("undefined", EmptyObject)

RetryIdle == [pc |-> "idle", i |-> 0, outcomes |-> <<>>, delays |-> <<>>,
              value |-> UndefinedResponse, error |-> NoError]
\* generateContentWithRetry entered: i = 0, the first attempt is in flight
RetryCalled == [RetryIdle EXCEPT !.pc = "attempt"]

Settled(r) == r.pc \in {"returned", "thrown"}
Succeeded(response) == [ok |-> TRUE, error |-> NoError, response |-> response]
Failed(error) == [ok |-> FALSE, error |-> error, response |-> UndefinedResponse]

\* What JSON.parse throws
SyntaxError == [name |-> "SyntaxError", status |-> 0, code |-> 0, message |-> {}]

\* caught = what the catch block received, error = what the call rejected with
NoFile == [readable |-> FALSE, probe |-> "none", duration |-> 0]
NoResult == [has |-> {}]
NoFailure == [name |-> "none", message |-> "none"]
NoJob == [fn |-> "none", pc |-> "idle", file |-> NoFile, requests |-> 0,
          response |-> UndefinedResponse, result |-> NoResult, caught |-> NoError,
          error |-> NoFailure]

\* No codec has been applied: the empty text, nothing decoded
NoCodec == [op |-> "none", bytes |-> <<>>, data |-> <<>>,
            text |-> [digits |-> <<>>, pad |-> 0],
            decoded |-> FALSE, outBytes |-> <<>>, outData |-> <<>>]

\* A state or field that holds null, or a value
Null == <<>>
Some(value) == <<value>>

\* App after construction.  handler = the async handler that is suspended at
\* an await, step = the await it is suspended at, requested = the calls the
\* running handler has made to the service, in order
NoApp == [appState |-> "idle", error |-> Null, analysisResult |-> Null,
          oldFile |-> Null, newFile |-> Null,
          oldAnalysisResult |-> Null, newAnalysisResult |-> Null,
          comparisonResult |-> Null,
          handler |-> "none", step |-> "none", requested |-> <<>>]

VARIABLES
    impl,                \* which controller
    mounted,             \* the component is mounted / not destroyed
    conversationState,   \* useState / field conversationState
    sessionPromise,      \* sessionPromiseRef / sessionPromise: id of the session, 0 = null
    sessions,            \* per session id: phase, captured state, gum, close requests
    inputAudioContext,   \* ref: id of the context, 0 = null
    outputAudioContext,  \* ref: id of the context, 0 = null
    openContexts,        \* audio contexts created and not closed: <<kind, id>>
    mediaStream,         \* mediaStreamRef / mediaStream: id of the stream, 0 = null
    liveStreams,         \* capture streams with a track that was not stopped
    pipelineRef,         \* scriptProcessorRef + mediaStreamSourceRef (React only), 0 = null
    wired,               \* capture pipelines whose nodes are connected
    transcript,          \* sequence of [speaker, text, isFinal]
    nextStartTime,       \* playback cursor
    sources,             \* set of tracked playback handles (buffer ids)
    clock,               \* currentTime of the context in outputAudioContext
    pending,             \* handleMessage calls suspended at the decode await, oldest first
    buffers,             \* every buffer source started: start, duration, status
    epoch,               \* number of the stretch of playback without interruption or restart
    run,                 \* the fragments received since the last speaker change or turn end
    last,                \* the operation that produced this state, and the state it ran in
    retry,               \* the generateContentWithRetry call: loop index, attempts, waits, outcome
    job,                 \* the analyzeAudio / generateComparisonReport call: position, result, error
    codec,               \* the codec applied last: its input, its text, what was decoded from it
    capture,             \* frames the capture callback delivered, and where each one went
    app                  \* App / AppComponent: appState, results, error, the handler that is running

lifeVars == <<mounted, conversationState, sessionPromise, sessions, inputAudioContext,
              outputAudioContext, openContexts, mediaStream, liveStreams, pipelineRef, wired>>
msgVars == <<transcript, nextStartTime, sources, clock, pending, buffers, epoch, run>>
liveVars == <<impl, lifeVars, msgVars, last>>
svcVars == <<retry, job>>
codecVars == <<codec>>
captureVars == <<capture>>
appVars == <<app>>
vars == <<liveVars, svcVars, codecVars, captureVars, appVars>>
\* What the actions of one part of the model leave alone
besidesSession == <<svcVars, codecVars, appVars>>
besidesLive == <<besidesSession, captureVars>>
besidesApp == <<liveVars, codecVars, captureVars>>
besidesService == <<besidesApp, appVars>>
besidesCodec == <<liveVars, svcVars, captureVars, appVars>>

SessionIds == 1..(MaxSessions + 1)

\* Nothing captured yet.  on = the input context each pipeline was built on,
\* resolved = the sessions whose connect promise has resolved, waiting = the
\* then-callbacks registered on a promise that is still pending, sent = the
\* sendRealtimeInput calls made, lost = frames whose promise rejected
NoCapture == [on |-> [s \in SessionIds |-> 0], resolved |-> {}, frames |-> 0,
              waiting |-> <<>>, sent |-> <<>>, lost |-> {}]

Did(op, s, m) == [op |-> op, s |-> s, from |-> conversationState, m |-> m]
Done(op, s) == Did(op, s, NoMessage)

Init ==
    /\ impl \in Impls
    /\ mounted = TRUE
    /\ conversationState = "idle"
    /\ sessionPromise = 0
    /\ sessions = [s \in SessionIds |-> NoSession]
    /\ inputAudioContext = 0
    /\ outputAudioContext = 0
    /\ openContexts = {}
    /\ mediaStream = 0
    /\ liveStreams = {}
    /\ pipelineRef = 0
    /\ wired = {}
    /\ transcript = <<>>
    /\ nextStartTime = 0
    /\ sources = {}
    /\ clock = 0
    /\ pending = <<>>
    /\ buffers = <<>>
    /\ epoch = 0
    /\ run = NoRun
    /\ last = [op |-> "init", s |-> 0, from |-> "idle", m |-> NoMessage]
    /\ retry = RetryIdle
    /\ job = NoJob
    /\ codec = NoCodec
    /\ capture = NoCapture
    /\ app = NoApp

\* ------------------------------------------------------- endConversation
\* The nodes endConversation disconnects: React keeps the two nodes in refs
\* and disconnects them; Angular keeps no reference to them.
Disconnected == IF impl = "React" /\ pipelineRef # 0 THEN {pipelineRef} ELSE {}

\* The contexts endConversation closes
ClosedByEnd ==
    (IF inputAudioContext # 0 THEN {<<"in", inputAudioContext>>} ELSE {})
    \cup (IF outputAudioContext # 0 THEN {<<"out", outputAudioContext>>} ELSE {})

\* The streams whose tracks endConversation stops
StoppedByEnd == IF mediaStream # 0 THEN {mediaStream} ELSE {}

RequestClose(ss) ==
    IF sessionPromise = 0 THEN ss
    ELSE [ss EXCEPT ![sessionPromise].closeRequested = 1]

\* endConversation, with the sessions as the caller left them
EndConversation(ss) ==
    /\ sessions' = RequestClose(ss)
    /\ wired' = wired \ Disconnected
    /\ liveStreams' = liveStreams \ StoppedByEnd
    /\ openContexts' = openContexts \ ClosedByEnd
    /\ conversationState' = "ended"
    /\ UNCHANGED <<sessionPromise, inputAudioContext, outputAudioContext, mediaStream, pipelineRef>>

\* The "End Session" button, shown only while connected
EndClick ==
    /\ mounted
    /\ conversationState = "connected"
    /\ EndConversation(sessions)
    /\ last' = Done("end", sessionPromise)
    /\ UNCHANGED <<besidesLive, impl, mounted, msgVars>>

\* Cleanup on unmount / ngOnDestroy calls endConversation in whatever state
Unmount ==
    /\ mounted
    /\ mounted' = FALSE
    /\ EndConversation(sessions)
    /\ last' = Done("unmount", sessionPromise)
    /\ UNCHANGED <<besidesLive, impl, msgVars>>

\* ----------------------------------------------------- startConversation
\* "Start Speaking" is shown in idle, "Practice Again" in ended and error
\* A new stretch of playback begins when the cursor is reset
NextEpoch == IF \E b \in 1..Len(buffers) : buffers[b].epoch = epoch THEN epoch + 1 ELSE epoch

CanStart == mounted /\ conversationState \in {"idle", "ended", "error"}

\* (a variant that does not reset the playback cursor)
StartConversationKeepsCursor(limit) ==
    /\ CanStart
    /\ sessionPromise < limit
    /\ LET s == sessionPromise + 1 IN
       /\ conversationState' = "connecting"
       /\ transcript' = <<>>
       /\ sources' = {}
       /\ clock' = 0
       /\ epoch' = NextEpoch
       /\ run' = NoRun
       /\ inputAudioContext' = s
       /\ outputAudioContext' = s
       /\ openContexts' = openContexts \cup {<<"in", s>>, <<"out", s>>}
       /\ sessionPromise' = s
       /\ sessions' = [sessions EXCEPT ![s] =
              [phase |-> "opening", captured |-> conversationState,
               gum |-> "none", closeRequested |-> 0]]
       /\ last' = Done("start", s)
    /\ UNCHANGED <<besidesLive, impl, mounted, mediaStream, liveStreams, pipelineRef, wired, pending, buffers, nextStartTime>>

StartConversation(limit) ==
    /\ CanStart
    /\ sessionPromise < limit
    /\ LET s == sessionPromise + 1 IN
       /\ conversationState' = "connecting"
       /\ transcript' = <<>>
       /\ nextStartTime' = 0
       /\ sources' = {}
       /\ clock' = 0
       /\ epoch' = NextEpoch
       /\ run' = NoRun
       /\ inputAudioContext' = s
       /\ outputAudioContext' = s
       /\ openContexts' = openContexts \cup {<<"in", s>>, <<"out", s>>}
       /\ sessionPromise' = s
       /\ sessions' = [sessions EXCEPT ![s] =
              [phase |-> "opening", captured |-> conversationState,
               gum |-> "none", closeRequested |-> 0]]
       /\ last' = Done("start", s)
    /\ UNCHANGED <<besidesLive, impl, mounted, mediaStream, liveStreams, pipelineRef, wired, pending, buffers>>

\* A synchronous throw inside the try block (the client constructor rejects
\* its configuration) is caught: the state becomes error, nothing else runs.
StartThrows ==
    /\ CanStart
    /\ conversationState' = "error"
    /\ transcript' = <<>>
    /\ nextStartTime' = 0
    /\ sources' = {}
    /\ epoch' = NextEpoch
    /\ run' = NoRun
    /\ last' = Done("startThrows", sessionPromise)
    /\ UNCHANGED <<besidesLive, impl, mounted, sessionPromise, sessions, inputAudioContext, outputAudioContext,
                   openContexts, mediaStream, liveStreams, pipelineRef, wired, clock, pending,
                   buffers>>

\* ------------------------------------------------------ session callbacks
\* The connect promise of session s resolves: the then-callbacks waiting on
\* it run in the order they were registered
FramesFor(s) == LET OfSession(f) == f.session = s IN SelectSeq(capture.waiting, OfSession)
FramesNotFor(s) == LET OfOther(f) == f.session # s IN SelectSeq(capture.waiting, OfOther)
ConnectResolved(s) == [capture EXCEPT !.resolved = @ \cup {s},
                               !.sent = @ \o FramesFor(s),
                               !.waiting = FramesNotFor(s)]
\* The connect promise of session s rejects: the then-callbacks never run
ConnectRejected(s) == [capture EXCEPT !.lost = @ \cup {FramesFor(s)[k].n : k \in 1..Len(FramesFor(s))},
                                !.waiting = FramesNotFor(s)]

\* onopen up to its await: the state is set and getUserMedia is requested;
\* the connect promise resolves right after the callback
OnOpen(s) ==
    /\ sessions[s].phase = "opening"
    /\ sessions' = [sessions EXCEPT ![s].phase = "open", ![s].gum = "pending"]
    /\ conversationState' = "connected"
    /\ capture' = ConnectResolved(s)
    /\ last' = Done("onopen", s)
    /\ UNCHANGED <<besidesSession, impl, mounted, sessionPromise, inputAudioContext, outputAudioContext,
                   openContexts, mediaStream, liveStreams, pipelineRef, wired, msgVars>>

\* onopen after its await: the stream is stored and the capture pipeline is
\* built on whatever context the ref holds now. Building it on a closed
\* context either fails (the rest of onopen is skipped) or succeeds,
\* depending on the browser.
GumResolves(s) ==
    /\ sessions[s].gum = "pending"
    /\ sessions' = [sessions EXCEPT ![s].gum = "done"]
    /\ mediaStream' = s
    /\ liveStreams' = liveStreams \cup {s}
    /\ \E built \in BOOLEAN :
        /\ (<<"in", inputAudioContext>> \in openContexts) => built
        /\ wired' = IF built THEN wired \cup {s} ELSE wired
        /\ pipelineRef' = IF built /\ impl = "React" THEN s ELSE pipelineRef
        /\ capture' = IF built THEN [capture EXCEPT !.on[s] = inputAudioContext] ELSE capture
    /\ last' = Done("gumResolves", s)
    /\ UNCHANGED <<besidesSession, impl, mounted, conversationState, sessionPromise, inputAudioContext,
                   outputAudioContext, openContexts, msgVars>>

\* getUserMedia rejects: the await throws inside the async onopen, whose
\* promise nobody handles
GumRejects(s) ==
    /\ sessions[s].gum = "pending"
    /\ sessions' = [sessions EXCEPT ![s].gum = "failed"]
    /\ last' = Done("gumRejects", s)
    /\ UNCHANGED <<besidesLive, impl, mounted, conversationState, sessionPromise, inputAudioContext,
                   outputAudioContext, openContexts, mediaStream, liveStreams, pipelineRef,
                   wired, msgVars>>

\* onerror: sets error, then calls endConversation
OnError(s) ==
    /\ sessions[s].phase \in {"opening", "open"}
    /\ EndConversation([sessions EXCEPT ![s].phase = "errored"])
    /\ last' = Done("onerror", s)
    /\ UNCHANGED <<besidesLive, impl, mounted, msgVars>>

\* onclose: React tests the conversationState its closure captured when
\* startConversation was created, Angular tests the field
StateSeenByOnClose(s) == IF impl = "React" THEN sessions[s].captured ELSE conversationState

OnClose(s) ==
    /\ sessions[s].phase \in {"opening", "open", "errored"}
    /\ sessions' = [sessions EXCEPT ![s].phase = "closed"]
    /\ conversationState' = IF StateSeenByOnClose(s) # "ended" THEN "ended" ELSE conversationState
    /\ last' = Done("onclose", s)
    /\ UNCHANGED <<besidesLive, impl, mounted, sessionPromise, inputAudioContext, outputAudioContext,
                   openContexts, mediaStream, liveStreams, pipelineRef, wired, msgVars>>

\* The promise returned by live.connect rejects: it is stored in the ref and
\* never awaited, so no code of the controller runs
ConnectRejects(s) ==
    /\ sessions[s].phase = "opening"
    /\ sessions' = [sessions EXCEPT ![s].phase = "rejected"]
    /\ capture' = ConnectRejected(s)
    /\ last' = Done("connectRejects", s)
    /\ UNCHANGED <<besidesSession, impl, mounted, conversationState, sessionPromise, inputAudioContext,
                   outputAudioContext, openContexts, mediaStream, liveStreams, pipelineRef,
                   wired, msgVars>>

\* ---------------------------------------------------------- onaudioprocess
\* The script processor of pipeline p delivers a frame: a then-callback that
\* calls sendRealtimeInput is registered on the promise the ref holds now.
\* It runs at once when that promise has resolved, waits when it is pending
\* and never runs when it has rejected.  A pipeline delivers frames while its
\* nodes are connected and its context is not closed.
AudioProcess(p) ==
    /\ p \in wired
    /\ <<"in", capture.on[p]>> \in openContexts
    /\ capture.frames < MaxCaptured
    /\ LET frame == [n |-> capture.frames + 1, session |-> sessionPromise, pipeline |-> p]
       IN  capture' =
              IF sessionPromise \in capture.resolved
              THEN [capture EXCEPT !.frames = @ + 1, !.sent = Append(@, frame)]
              ELSE IF sessions[sessionPromise].phase = "rejected"
              THEN [capture EXCEPT !.frames = @ + 1, !.lost = @ \cup {frame.n}]
              ELSE [capture EXCEPT !.frames = @ + 1, !.waiting = Append(@, frame)]
    /\ last' = Done("audioprocess", p)
    /\ UNCHANGED <<besidesSession, impl, lifeVars, msgVars>>

\* ---------------------------------------------------------- handleMessage
\* The coalescing rule of the setTranscript updater / updateTranscript
\* (a variant that appends to the last turn of the speaker even when it is final)
CoalesceIntoFinal(tr, speaker, text) ==
    IF Len(tr) > 0 /\ tr[Len(tr)].speaker = speaker
    THEN [tr EXCEPT ![Len(tr)].text = @ \o <<text>>]
    ELSE Append(tr, [speaker |-> speaker, text |-> <<text>>, isFinal |-> FALSE])

Coalesce(tr, speaker, text) ==
    IF Len(tr) > 0 /\ tr[Len(tr)].speaker = speaker /\ ~tr[Len(tr)].isFinal
    THEN [tr EXCEPT ![Len(tr)].text = @ \o <<text>>]
    ELSE Append(tr, [speaker |-> speaker, text |-> <<text>>, isFinal |-> FALSE])

\* inputTranscription is tested first, outputTranscription in the else branch
WithFragment(tr, m) ==
    IF m.inputTranscription # "none" THEN Coalesce(tr, "User", m.inputTranscription)
    ELSE IF m.outputTranscription # "none" THEN Coalesce(tr, "AI", m.outputTranscription)
    ELSE tr

\* React marks the last turn final on turnComplete; Angular's handleMessage
\* does not read turnComplete
WithTurnComplete(tr, m) ==
    IF impl = "React" /\ m.turnComplete /\ Len(tr) > 0
    THEN [tr EXCEPT ![Len(tr)].isFinal = TRUE]
    ELSE tr

UpdateTranscript(tr, m) == WithTurnComplete(WithFragment(tr, m), m)

\* The messages received, summarised as the current run: the fragments of
\* one speaker since the last speaker change or turn-complete signal, the
\* length the transcript had when the run began, and whether a turn-complete
\* signal has closed it
RunAfter(r, tr, m) ==
    LET sp == IF m.inputTranscription # "none" THEN "User"
              ELSE IF m.outputTranscription # "none" THEN "AI" ELSE "none"
        tx == IF m.inputTranscription # "none" THEN m.inputTranscription
              ELSE m.outputTranscription
        r1 == IF sp = "none" THEN r
              ELSE IF r.speaker = sp /\ ~r.closed THEN [r EXCEPT !.text = @ \o <<tx>>]
              ELSE [speaker |-> sp, text |-> <<tx>>, base |-> Len(tr), closed |-> FALSE]
    IN  IF m.turnComplete /\ r1.speaker # "none" THEN [r1 EXCEPT !.closed = TRUE] ELSE r1

RECURSIVE TextLen(_)
TextLen(tr) == IF tr = <<>> THEN 0 ELSE Len(Head(tr).text) + TextLen(Tail(tr))

HasFragment(m) == m.inputTranscription # "none" \/ m.outputTranscription # "none"

Max(a, b) == IF a >= b THEN a ELSE b

\* The cursor when a message with audio arrives: max(nextStartTime, currentTime)
CursorOnAudio == Max(nextStartTime, clock)

\* The cursor after a buffer was started: nextStartTime += audioBuffer.duration
CursorAfterNoAdvance(start, dur) == start
CursorAfter(start, dur) == start + dur

\* source.stop() on every handle of hs
StopAll(bs, hs) ==
    [b \in 1..Len(bs) |-> IF b \in hs THEN [bs[b] EXCEPT !.status = "stopped"] ELSE bs[b]]

\* The handlers suspended at the decode await while an interruption is handled
Overtaken(hs) == [k \in 1..Len(hs) |-> [hs[k] EXCEPT !.overtaken = TRUE]]

\* Only React's handleMessage has the branch for serverContent.interrupted
Interrupts(m) == impl = "React" /\ m.interrupted

\* handleMessage up to the decode await (or to its end when the message
\* carries no audio). Neither controller checks the session or the state.
OnMessage(s, m) ==
    /\ sessions[s].phase = "open"
    /\ HasFragment(m) => TextLen(transcript) < MaxText
    /\ m.audio # 0 => Len(buffers) + Len(pending) < MaxBuffers
    /\ transcript' = UpdateTranscript(transcript, m)
    /\ run' = RunAfter(run, transcript, m)
    /\ IF m.audio # 0
       THEN /\ nextStartTime' = CursorOnAudio
            /\ pending' = Append(pending, [m |-> m, s |-> s, ctx |-> outputAudioContext,
                                           behind |-> Len(pending), overtaken |-> FALSE])
            /\ UNCHANGED <<sources, buffers, epoch>>
       ELSE /\ IF Interrupts(m)
               THEN /\ buffers' = StopAll(buffers, sources)
                    /\ sources' = {}
                    /\ nextStartTime' = 0
                    /\ pending' = Overtaken(pending)
               ELSE UNCHANGED <<buffers, sources, nextStartTime, pending>>
            /\ epoch' = IF m.interrupted THEN NextEpoch ELSE epoch
    /\ last' = Did("msg", s, m)
    /\ UNCHANGED <<besidesLive, impl, lifeVars, clock>>

\* handleMessage after the decode await: the source is created, started at
\* the cursor and tracked; then the interrupted branch runs
DecodeDone ==
    /\ pending # <<>>
    /\ LET h == Head(pending)
           b == Len(buffers) + 1
           started == Append(buffers,
               [start |-> nextStartTime, dur |-> h.m.audio, at |-> clock, epoch |-> epoch,
                ctx |-> IF impl = "React" THEN h.ctx ELSE outputAudioContext,
                behind |-> h.behind, status |-> "playing"])
       IN  /\ pending' = IF Interrupts(h.m) THEN Overtaken(Tail(pending)) ELSE Tail(pending)
           /\ IF Interrupts(h.m)
              THEN /\ buffers' = StopAll(started, sources \cup {b})
                   /\ sources' = {}
                   /\ nextStartTime' = 0
              ELSE /\ buffers' = started
                   /\ sources' = sources \cup {b}
                   /\ nextStartTime' = CursorAfter(nextStartTime, h.m.audio)
           /\ epoch' = IF h.m.interrupted THEN epoch + 1 ELSE epoch
           /\ last' = Did("decoded", h.s, h.m)
    /\ UNCHANGED <<besidesLive, impl, lifeVars, transcript, clock, run>>

\* The audio clock of the current output context advances while it is open
Tick ==
    /\ clock < MaxClock
    /\ <<"out", outputAudioContext>> \in openContexts
    /\ clock' = clock + 1
    /\ last' = Done("tick", 0)
    /\ UNCHANGED <<besidesLive, impl, lifeVars, transcript, nextStartTime, sources, pending, buffers, epoch, run>>

\* When a buffer source has played to its end its ended listener untracks it
PlaybackEnd(b) == Max(buffers[b].start, buffers[b].at) + buffers[b].dur

\* (a variant whose ended listener leaves the handle in the set)
SourceEndedKeepsHandle(b) ==
    /\ buffers[b].status = "playing"
    /\ buffers[b].ctx = outputAudioContext
    /\ PlaybackEnd(b) <= clock
    /\ buffers' = [buffers EXCEPT ![b].status = "ended"]
    /\ last' = Done("sourceEnded", 0)
    /\ UNCHANGED <<besidesLive, impl, lifeVars, transcript, nextStartTime, sources, clock, pending, epoch, run>>

SourceEnded(b) ==
    /\ buffers[b].status = "playing"
    /\ buffers[b].ctx = outputAudioContext
    /\ PlaybackEnd(b) <= clock
    /\ buffers' = [buffers EXCEPT ![b].status = "ended"]
    /\ sources' = sources \ {b}
    /\ last' = Done("sourceEnded", 0)
    /\ UNCHANGED <<besidesLive, impl, lifeVars, transcript, nextStartTime, clock, pending, epoch, run>>

\* ---------------------------------------------------------- message inputs
Fragment(speaker, text, tc) ==
    [NoMessage EXCEPT !.inputTranscription = IF speaker = "User" THEN text ELSE "none",
                      !.outputTranscription = IF speaker = "AI" THEN text ELSE "none",
                      !.turnComplete = tc]

LifecycleMessages == {Fragment("User", "a", FALSE)}

TranscriptMessages ==
    {Fragment(sp, tx, tc) : sp \in Speakers, tx \in Fragments, tc \in BOOLEAN}
    \cup {[NoMessage EXCEPT !.turnComplete = TRUE]}

RestartMessages == {Fragment("User", "a", FALSE), [NoMessage EXCEPT !.audio = 1]}

PlaybackMessages ==
    {m \in Message : /\ ~HasFragment(m) /\ ~m.turnComplete
                     /\ (m.audio # 0 \/ m.interrupted)}

\* ------------------------------------------------ generateContentWithRetry
\* A caller outside the analysis service calls generateContentWithRetry.  The
\* client exists: API_KEY is set.
GenerateContentWithRetry ==
    /\ job.pc # "requesting"
    /\ retry.pc = "idle" \/ Settled(retry)
    /\ retry' = RetryCalled
    /\ UNCHANGED <<besidesService, job>>

\* ai.models.generateContent resolves: the response is returned
AttemptSucceeds(response) ==
    /\ retry.pc = "attempt"
    /\ retry' = [retry EXCEPT !.pc = "returned", !.value = response,
                              !.outcomes = Append(@, Succeeded(response))]
    /\ UNCHANGED <<besidesService, job>>

\* ai.models.generateContent rejects: the catch block
AttemptFails(error) ==
    /\ retry.pc = "attempt"
    /\ retry' = IF MayRetry(error, retry.i)
                THEN [retry EXCEPT !.pc = "backoff", !.outcomes = Append(@, Failed(error))]
                ELSE [retry EXCEPT !.pc = "thrown", !.error = error,
                                   !.outcomes = Append(@, Failed(error))]
    /\ UNCHANGED <<besidesService, job>>

\* The setTimeout of the backoff fires: continue with i + 1.  A loop that
\* ends without return or throw makes the function return undefined.
BackoffElapses ==
    /\ retry.pc = "backoff"
    /\ retry' = [retry EXCEPT !.delays = Append(@, BackoffDelay(retry.i)),
                              !.i = @ + 1,
                              !.pc = IF retry.i + 1 < Retries THEN "attempt" ELSE "returned"]
    /\ UNCHANGED <<besidesService, job>>

\* ------------------------------------------------------------- analyzeAudio
\* An audio file as the two helpers see it: readable = FileReader fires onload
\* (onerror otherwise); probe = the audio element fires loadedmetadata with
\* this duration in seconds, or fires error
AudioFile(readable, probe, seconds) ==
    [readable |-> readable, probe |-> probe, duration |-> seconds]

\* getAudioDuration: audio.duration on loadedmetadata, 0 on error
getAudioDuration(file) == IF file.probe = "loadedmetadata" THEN file.duration ELSE 0

\* The error fileToBase64 rejects with: the event passed to reader.onerror
ReaderError == [name |-> "ProgressEvent", message |-> "undefined"]
AnalysisFailure ==
    [name |-> "Error",
     message |-> "Failed to analyze audio. The AI model is currently experiencing high traffic. Please try again in a few moments."]
ComparisonFailure ==
    [name |-> "Error", message |-> "Failed to compare analyses. Please try again."]

\* JSON.parse(response?.text?.trim() || "{}")
ParseThrows(response) == response.text = "garbage"
JSONParse(response) == IF response.text = "json" THEN response.body ELSE EmptyObject

RECURSIVE SumSeq(_)
SumSeq(s) == IF s = <<>> THEN 0 ELSE Head(s) + SumSeq(Tail(s))

Min(a, b) == IF a <= b THEN a ELSE b

\* Math.round(a / b) for a >= 0, b > 0: the nearest integer, a half goes up
MathRound(a, b) == (2 * a + b) \div (2 * b)

\* (total / count).toFixed(2) read back by parseFloat, in hundredths, for a
\* total in hundredths: the nearest multiple of 0.01, a half goes up
toFixed2Floor(total, count) == total \div count
toFixed2(total, count) == (2 * total + count) \div (2 * count)

processedDimensions(result) == IF "dimensions" \in result.has THEN result.dimensions ELSE <<>>
processedFluencyRounded(result) ==
    IF "fluencySpeechRatePercentage" \in result.has
    THEN 100 * MathRound(result.fluencySpeechRatePercentage, 100) ELSE 0
processedFluency(result) ==
    IF "fluencySpeechRatePercentage" \in result.has THEN result.fluencySpeechRatePercentage ELSE 0
conversation(result) == IF "conversation" \in result.has THEN result.conversation ELSE <<>>
primaryLabel(result) ==
    IF "primarySpeakerLabel" \in result.has THEN result.primarySpeakerLabel ELSE "undefined"

\* Math.max(0, turn.endTime - turn.startTime)
\* (a variant without the clamp at 0)
durationSigned(turn) == turn.endTime - turn.startTime
duration(turn) == Max(0, turn.endTime - turn.startTime)

\* The two sums of the forEach over the conversation
primarySeconds(result) ==
    SumSeq([t \in 1..Len(conversation(result)) |->
               IF conversation(result)[t].speaker = primaryLabel(result)
               THEN duration(conversation(result)[t]) ELSE 0])
otherSeconds(result) ==
    SumSeq([t \in 1..Len(conversation(result)) |->
               IF conversation(result)[t].speaker = primaryLabel(result)
               THEN 0 ELSE duration(conversation(result)[t])])
totalSpoken(result) == primarySeconds(result) + otherSeconds(result)

\* seconds *= audioDuration / totalSpoken when the turns outlast the audio;
\* a number of seconds is the fraction num / den
scaleSecondsNever(seconds, total, audioDuration) == [num |-> seconds, den |-> 1]
scaleSeconds(seconds, total, audioDuration) ==
    IF audioDuration > 0 /\ total > audioDuration
    THEN [num |-> seconds * audioDuration, den |-> total]
    ELSE [num |-> seconds, den |-> 1]

\* audioDuration || 1
basisDuration(audioDuration) == IF audioDuration = 0 THEN 1 ELSE audioDuration

\* Math.min(100, Math.round((seconds / basisDuration) * 100))
percentageUncapped(seconds, basis) == MathRound(100 * seconds.num, seconds.den * basis)
percentage(seconds, basis) == Min(100, MathRound(100 * seconds.num, seconds.den * basis))

speakingTimeDistribution(result, audioDuration) ==
    [primarySpeaker |->
        [seconds |-> scaleSeconds(primarySeconds(result), totalSpoken(result), audioDuration),
         percentage |-> percentage(scaleSeconds(primarySeconds(result), totalSpoken(result),
                                                audioDuration),
                                   basisDuration(audioDuration))],
     others |->
        [seconds |-> scaleSeconds(otherSeconds(result), totalSpoken(result), audioDuration),
         percentage |-> percentage(scaleSeconds(otherSeconds(result), totalSpoken(result),
                                                audioDuration),
                                   basisDuration(audioDuration))]]

CoreDimensionNames == {"Clarity", "Language Proficiency", "Conciseness"}

coreDimensionScores(dimensions) ==
    [d \in 1..Len(SelectSeq(dimensions, LAMBDA x : x.name \in CoreDimensionNames)) |->
        SelectSeq(dimensions, LAMBDA x : x.name \in CoreDimensionNames)[d].score]

overallScore(dimensions) ==
    IF Len(coreDimensionScores(dimensions)) > 0
    THEN toFixed2(SumSeq(coreDimensionScores(dimensions)), Len(coreDimensionScores(dimensions)))
    ELSE 0

\* { ...result, dimensions, fluencySpeechRatePercentage, overallScore,
\*   speakingTimeDistribution }: the four named properties replace whatever
\* the spread put under their names
AnalysisResult(result, audioDuration) ==
    [has |-> result.has \cup {"dimensions", "fluencySpeechRatePercentage", "overallScore",
                              "speakingTimeDistribution"},
     primarySpeakerLabel |-> result.primarySpeakerLabel,
     conversation |-> result.conversation,
     dimensions |-> processedDimensions(result),
     fluencySpeechRatePercentage |-> processedFluency(result),
     overallScore |-> overallScore(processedDimensions(result)),
     speakingTimeDistribution |-> speakingTimeDistribution(result, audioDuration)]

\* Number of generateContentWithRetry calls one analyzeAudio call makes
\* ("We are using single pass now")
PassCountTwo == 1 + 1
PassCount == 1

\* analyzeAudio(audioFile) is called: fileToBase64 and getAudioDuration start
AnalyzeAudio(file) ==
    /\ job.pc \in {"idle", "done", "failed"}
    /\ retry.pc # "attempt" /\ retry.pc # "backoff"
    /\ job' = [NoJob EXCEPT !.fn = "analyzeAudio", !.pc = "reading", !.file = file]
    /\ UNCHANGED <<besidesService, retry>>

\* Promise.all resolves, which takes the file read and the duration probe to
\* settle: the request is built and generateContentWithRetry is called inside
\* the try block
FileRead ==
    /\ job.fn = "analyzeAudio" /\ job.pc = "reading"
    /\ job.file.readable
    /\ job.file.probe # "never"
    /\ job' = [job EXCEPT !.pc = "requesting", !.requests = @ + PassCount]
    /\ retry' = RetryCalled
    /\ UNCHANGED besidesService

\* reader.onerror: Promise.all rejects ahead of the try block, analyzeAudio
\* rejects with the same value
FileReadFails ==
    /\ job.fn = "analyzeAudio" /\ job.pc = "reading"
    /\ ~job.file.readable
    /\ job' = [job EXCEPT !.pc = "failed", !.error = ReaderError]
    /\ UNCHANGED <<besidesService, retry>>

\* generateContentWithRetry returned: parse, post-process, return; a throw of
\* JSON.parse goes to the catch block.  The state of the finished
\* generateContentWithRetry call is gone once its caller resumes.
AnalyzeReturns ==
    /\ job.fn = "analyzeAudio" /\ job.pc = "requesting"
    /\ retry.pc = "returned"
    /\ job' = IF ParseThrows(retry.value)
              THEN [job EXCEPT !.pc = "failed", !.response = retry.value,
                               !.caught = SyntaxError, !.error = AnalysisFailure]
              ELSE [job EXCEPT !.pc = "done", !.response = retry.value,
                               !.result = AnalysisResult(JSONParse(retry.value),
                                                         getAudioDuration(job.file))]
    /\ retry' = RetryIdle
    /\ UNCHANGED besidesService

\* generateContentWithRetry threw: the catch block throws the fixed error
AnalyzeCatches ==
    /\ job.fn = "analyzeAudio" /\ job.pc = "requesting"
    /\ retry.pc = "thrown"
    /\ job' = [job EXCEPT !.pc = "failed", !.caught = retry.error, !.error = AnalysisFailure]
    /\ retry' = RetryIdle
    /\ UNCHANGED besidesService

\* --------------------------------------------------- generateComparisonReport
\* generateComparisonReport(oldAnalysis, newAnalysis) is called: the request
\* is built and generateContentWithRetry is called inside the try block
GenerateComparisonReport ==
    /\ job.pc \in {"idle", "done", "failed"}
    /\ retry.pc # "attempt" /\ retry.pc # "backoff"
    /\ job' = [NoJob EXCEPT !.fn = "generateComparisonReport", !.pc = "requesting",
                            !.requests = 1]
    /\ retry' = RetryCalled
    /\ UNCHANGED besidesService

\* return JSON.parse(response?.text?.trim() || "{}")
CompareReturns ==
    /\ job.fn = "generateComparisonReport" /\ job.pc = "requesting"
    /\ retry.pc = "returned"
    /\ job' = IF ParseThrows(retry.value)
              THEN [job EXCEPT !.pc = "failed", !.response = retry.value,
                               !.caught = SyntaxError, !.error = ComparisonFailure]
              ELSE [job EXCEPT !.pc = "done", !.response = retry.value,
                               !.result = JSONParse(retry.value)]
    /\ retry' = RetryIdle
    /\ UNCHANGED besidesService

CompareCatches ==
    /\ job.fn = "generateComparisonReport" /\ job.pc = "requesting"
    /\ retry.pc = "thrown"
    /\ job' = [job EXCEPT !.pc = "failed", !.caught = retry.error, !.error = ComparisonFailure]
    /\ retry' = RetryIdle
    /\ UNCHANGED besidesService

\* ------------------------------------------------------------------------ App
\* React   : src/App.tsx
\* Angular : AppComponent in src/app/models/types.ts
\* The job of an analyzeAudio call / a generateComparisonReport call just made
AnalysisStarted(file) == [NoJob EXCEPT !.fn = "analyzeAudio", !.pc = "reading", !.file = file]
ComparisonStarted == [NoJob EXCEPT !.fn = "generateComparisonReport", !.pc = "requesting",
                                   !.requests = 1]

\* What the catch block shows.  React: err instanceof Error ? err.message :
\* "An unknown error occurred."; Angular: e.message || the fallback text
ErrorShown(err, handler) ==
    IF impl = "React"
    THEN IF err.name = "Error" THEN err.message ELSE "An unknown error occurred."
    ELSE IF err.message # "undefined" THEN err.message
         ELSE IF handler = "single" THEN "Unknown error" ELSE "An unknown error occurred."

Caught(handler) ==
    [app EXCEPT !.appState = "error", !.error = Some(ErrorShown(job.error, handler)),
                !.handler = "none", !.step = "none"]

\* handleSingleFile up to its await.  The upload is shown in idle only.
\* React clears error and analysisResult, Angular does not.
HandleSingleFile(file) ==
    /\ app.appState = "idle"
    /\ job.pc \in {"idle", "done", "failed"}
    /\ app' = IF impl = "React"
              THEN [app EXCEPT !.appState = "loading", !.error = Null, !.analysisResult = Null,
                               !.handler = "single", !.step = "analysis",
                               !.requested = <<"analysis">>]
              ELSE [app EXCEPT !.appState = "loading",
                               !.handler = "single", !.step = "analysis",
                               !.requested = <<"analysis">>]
    /\ job' = AnalysisStarted(file)
    /\ UNCHANGED <<besidesApp, retry>>

\* handleSingleFile after its await: the result is stored, or the catch
\* block runs
SingleFileSettles ==
    /\ app.handler = "single"
    /\ job.pc \in {"done", "failed"}
    /\ app' = IF job.pc = "done"
              THEN [app EXCEPT !.analysisResult = Some(job.result), !.appState = "success",
                               !.handler = "none", !.step = "none"]
              ELSE Caught("single")
    /\ UNCHANGED <<besidesApp, svcVars>>

\* The two uploads of the comparison tab
SetOldFile(file) ==
    /\ app.appState = "idle" /\ app.oldFile = Null
    /\ app' = [app EXCEPT !.oldFile = Some(file)]
    /\ UNCHANGED <<besidesApp, svcVars>>

SetNewFile(file) ==
    /\ app.appState = "idle" /\ app.newFile = Null
    /\ app' = [app EXCEPT !.newFile = Some(file)]
    /\ UNCHANGED <<besidesApp, svcVars>>

\* handleComparisonFiles up to its first await; without both files it
\* returns at once (and its button is disabled)
HandleComparisonFiles ==
    /\ app.appState = "idle"
    /\ app.oldFile # Null /\ app.newFile # Null
    /\ job.pc \in {"idle", "done", "failed"}
    /\ app' = [app EXCEPT !.appState = "loading", !.error = Null, !.comparisonResult = Null,
                          !.oldAnalysisResult = Null, !.newAnalysisResult = Null,
                          !.handler = "comparison", !.step = "old", !.requested = <<"old">>]
    /\ job' = AnalysisStarted(app.oldFile[1])
    /\ UNCHANGED <<besidesApp, retry>>

\* (a variant that goes from the older analysis straight to the comparison)
StepAfterSkipsNewer(step) == "compare"
\* The await that follows an await of handleComparisonFiles
StepAfter(step) == IF step = "old" THEN "new" ELSE "compare"

\* handleComparisonFiles after one of its awaits: the result is stored and
\* the next call is made, or the catch block runs
ComparisonSettles ==
    /\ app.handler = "comparison"
    /\ job.pc \in {"done", "failed"}
    /\ IF job.pc = "failed"
       THEN /\ app' = Caught("comparison")
            /\ UNCHANGED svcVars
       ELSE IF app.step = "compare"
       THEN /\ app' = [app EXCEPT !.comparisonResult = Some(job.result), !.appState = "success",
                                  !.handler = "none", !.step = "none"]
            /\ UNCHANGED svcVars
       ELSE LET next == StepAfter(app.step)
                stored == IF app.step = "old"
                          THEN [app EXCEPT !.oldAnalysisResult = Some(job.result)]
                          ELSE [app EXCEPT !.newAnalysisResult = Some(job.result)]
            IN  /\ app' = [stored EXCEPT !.step = next, !.requested = Append(@, next)]
                /\ job' = IF next = "new" THEN AnalysisStarted(app.newFile[1])
                          ELSE ComparisonStarted
                /\ retry' = IF next = "new" THEN retry ELSE RetryCalled
    /\ UNCHANGED besidesApp

\* "Try Again" / "Analyze Another": shown in error and in success
HandleReset ==
    /\ app.appState \in {"success", "error"}
    /\ app' = NoApp
    /\ UNCHANGED <<besidesApp, svcVars>>

\* ----------------------------------------------------------- service inputs
BoundedSeq(S, n) == UNION {[1..k -> S] : k \in 0..n}

AnalysisFields == {"primarySpeakerLabel", "dimensions", "fluencySpeechRatePercentage",
                   "feedback", "fillerWords", "conversation", "personalizedSuggestions"}

\* Dimension entries a payload may hold: the three the prompt asks for and
\* one it does not; scores 4.00 and 5.00
DimensionNames == CoreDimensionNames \cup {"Confidence"}
Scores == {400, 500}
Dimension == [name : DimensionNames, score : Scores]

\* Fluency value of a payload: 87.50 %
Fluencies == {8750}

\* Turns of a transcript: start and end in seconds
Spans == {<<0, 30>>, <<25, 40>>, <<40, 25>>}
Turn == {[speaker |-> who, startTime |-> span[1], endTime |-> span[2]] :
            who \in {"User", "Other"}, span \in Spans}
ExampleConversation == <<[speaker |-> "User", startTime |-> 0, endTime |-> 30],
                         [speaker |-> "Other", startTime |-> 25, endTime |-> 40]>>

\* overallScore: 4.99, which no mean of Scores equals; the property is part
\* of the object only when has names it
AnalysisObject(has, dimensions, fluency, turns) ==
    [has |-> has, primarySpeakerLabel |-> "User", dimensions |-> dimensions,
     fluencySpeechRatePercentage |-> fluency, conversation |-> turns,
     overallScore |-> 499]

\* Responses without a usable payload: no text, blank text, text that is not
\* JSON, the object {}, an object without its dimensions
DegenerateResponses ==
    {Response("missing", EmptyObject), Response("empty", EmptyObject),
     Response("garbage", EmptyObject), Response("json", EmptyObject),
     Response("json", AnalysisObject(AnalysisFields \ {"dimensions"}, <<>>, 8750,
                                     ExampleConversation))}

ScoreResponses ==
    {Response("json", AnalysisObject(AnalysisFields \cup extra, dimensions, fluency,
                                     ExampleConversation)) :
        extra \in {{}, {"overallScore"}},
        dimensions \in BoundedSeq(Dimension, MaxDims),
        fluency \in Fluencies}
    \cup DegenerateResponses

TimeResponses ==
    {Response("json", AnalysisObject(AnalysisFields, <<>>, 0, turns)) :
        turns \in BoundedSeq(Turn, MaxTurns)}

ComparisonFields == {"dimensionChanges", "fluencyChange", "improvementSummary",
                     "areasForNextFocus"}
ComparisonResponses ==
    {Response("json", [EmptyObject EXCEPT !.has = ComparisonFields]),
     Response("missing", EmptyObject), Response("empty", EmptyObject),
     Response("garbage", EmptyObject)}

ScoreFiles == {AudioFile(TRUE, "loadedmetadata", 40), AudioFile(FALSE, "loadedmetadata", 40)}

\* Transcripts whose two shares of the duration end in half a percent
ShareSpans == {<<0, 5>>, <<5, 40>>}
ShareTurn == {[speaker |-> who, startTime |-> span[1], endTime |-> span[2]] :
                 who \in {"User", "Other"}, span \in ShareSpans}
ShareResponses ==
    {Response("json", AnalysisObject(AnalysisFields, <<>>, 0, turns)) :
        turns \in BoundedSeq(ShareTurn, MaxTurns)}
ShareFiles == {AudioFile(TRUE, "loadedmetadata", 20), AudioFile(TRUE, "loadedmetadata", 40)}

\* Files and answers of the App flows: a file that can be analysed, one that
\* cannot be read, one whose duration probe fires no event
AppFiles == {AudioFile(TRUE, "loadedmetadata", 40), AudioFile(FALSE, "loadedmetadata", 40)}
StalledFile == AudioFile(TRUE, "never", 0)
SingleFiles == AppFiles \cup {AudioFile(TRUE, "error", 40), StalledFile}
AppAnalysisResponses ==
    {Response("json", AnalysisObject(AnalysisFields, <<>>, 8750, ExampleConversation)),
     Response("garbage", EmptyObject)}
AppComparisonResponses ==
    {Response("json", [EmptyObject EXCEPT !.has = ComparisonFields]),
     Response("garbage", EmptyObject)}

TimeFiles == {AudioFile(TRUE, "loadedmetadata", 20), AudioFile(TRUE, "loadedmetadata", 40),
              AudioFile(TRUE, "loadedmetadata", 50), AudioFile(TRUE, "error", 40)}

\* Rejections the analysis specifications draw from: one retried, one not
ServiceErrors == {Overloaded503, BadRequest400}

\* ------------------------------------------------------------------ codecs
\* React   : decode, encode, decodeAudioData, createBlob of LivePractice.tsx
\* Angular : the private methods of the same names
\* A byte string is a sequence of numbers 0..255.  A base64 text is the
\* sequence of its 6-bit digits and the number of '=' that end it; the last
\* pad digits stand for the '=' characters.

\* binary += String.fromCharCode(bytes[i]): one UTF-16 code unit per byte
fromCharCode(bytes) == [i \in 1..Len(bytes) |-> bytes[i] % (2 ^ 16)]

\* bytes[i] = binaryString.charCodeAt(i), stored in a Uint8Array
charCodes(binaryString) == [i \in 1..Len(binaryString) |-> binaryString[i] % (2 ^ 8)]

\* btoa: three characters become four digits; a last group of one or two
\* characters is filled with zero bits and '='
RECURSIVE btoaDigits(_)
btoaDigits(s) ==
    IF Len(s) = 0 THEN <<>>
    ELSE IF Len(s) = 1 THEN <<s[1] \div 4, (s[1] % 4) * 16, 0, 0>>
    ELSE IF Len(s) = 2
         THEN <<s[1] \div 4, (s[1] % 4) * 16 + s[2] \div 16, (s[2] % 16) * 4, 0>>
    ELSE <<s[1] \div 4, (s[1] % 4) * 16 + s[2] \div 16, (s[2] % 16) * 4 + s[3] \div 64,
           s[3] % 64>> \o btoaDigits(SubSeq(s, 4, Len(s)))

btoa(s) == [digits |-> btoaDigits(s), pad |-> (3 - (Len(s) % 3)) % 3]

\* atob: four digits become three characters; the characters that the '='
\* stand for are left out
RECURSIVE atobChars(_)
atobChars(digits) ==
    IF Len(digits) = 0 THEN <<>>
    ELSE <<digits[1] * 4 + digits[2] \div 16,
           (digits[2] % 16) * 16 + digits[3] \div 4,
           (digits[3] % 4) * 64 + digits[4]>> \o atobChars(SubSeq(digits, 5, Len(digits)))

\* (a variant that keeps the characters the '=' stand for)
atobKeepsPadding(text) == atobChars(text.digits)
atob(text) == SubSeq(atobChars(text.digits), 1, 3 * (Len(text.digits) \div 4) - text.pad)

encode(bytes) == btoa(fromCharCode(bytes))
decode(base64) == charCodes(atob(base64))

\* A sample is a float given in quarter steps of 16-bit PCM: n stands for
\* n / (4 * 32768), so -1.0 is -4 * 32768 and 1.0 is 4 * 32768.

\* int16[i] = data[i] * 32768: the product is truncated toward zero and
\* wrapped into -2^15 .. 2^15 - 1
ToInt16(n) ==
    LET truncated == IF n >= 0 THEN n \div 4 ELSE -((-n) \div 4)
    IN  ((truncated + 2 ^ 15) % (2 ^ 16)) - 2 ^ 15

\* new Uint8Array(int16.buffer): two bytes per sample, low byte first
RECURSIVE Uint8View(_)
Uint8View(int16) ==
    IF int16 = <<>> THEN <<>>
    ELSE <<(Head(int16) % (2 ^ 16)) % 256, (Head(int16) % (2 ^ 16)) \div 256>>
         \o Uint8View(Tail(int16))

\* new Int16Array(data.buffer): one sample per two bytes, low byte first
Int16View(bytes) ==
    [i \in 1..(Len(bytes) \div 2) |->
        LET u == bytes[2 * i - 1] + 256 * bytes[2 * i]
        IN  IF u >= 2 ^ 15 THEN u - 2 ^ 16 ELSE u]

createBlob(data) == encode(Uint8View([i \in 1..Len(data) |-> ToInt16(data[i])]))

\* channelData[i] = dataInt16[i] / 32768.0, in quarter steps
decodeAudioData(bytes) == [i \in 1..Len(Int16View(bytes)) |-> 4 * Int16View(bytes)[i]]

\* encode(bytes) is applied to a byte string
Encode(bytes) ==
    /\ codec.op = "none"
    /\ codec' = [NoCodec EXCEPT !.op = "encode", !.bytes = bytes, !.text = encode(bytes)]
    /\ UNCHANGED besidesCodec

\* decode is applied to the text encode produced
Decode ==
    /\ codec.op = "encode" /\ ~codec.decoded
    /\ codec' = [codec EXCEPT !.decoded = TRUE, !.outBytes = decode(codec.text)]
    /\ UNCHANGED besidesCodec

\* createBlob(data) is applied to a frame of samples
CreateBlob(data) ==
    /\ codec.op = "none"
    /\ codec' = [NoCodec EXCEPT !.op = "createBlob", !.data = data, !.text = createBlob(data)]
    /\ UNCHANGED besidesCodec

\* decodeAudioData(decode(text)) is applied to the data of that blob
DecodeAudioData ==
    /\ codec.op = "createBlob" /\ ~codec.decoded
    /\ codec' = [codec EXCEPT !.decoded = TRUE, !.outBytes = decode(codec.text),
                              !.outData = decodeAudioData(decode(codec.text))]
    /\ UNCHANGED besidesCodec

\* ------------------------------------------------------------ codec inputs
ByteValues == {0, 1, 65, 128, 255}

\* Samples from -1.0 to 1.0: both ends, the steps next to them, values
\* between two steps, zero
SampleValues == {-(4 * 32768), -(4 * 32768) + 1, -(2 * 32768) - 1, -3, 0, 2, 4,
                 2 * 32768, 4 * 32768 - 4, 4 * 32768 - 1, 4 * 32768}

\* ---------------------------------------------------------- specification
Next ==
    \/ StartConversation(MaxSessions)
    \/ StartThrows
    \/ EndClick
    \/ Unmount
    \/ \E s \in SessionIds : OnOpen(s)
    \/ \E s \in SessionIds : GumResolves(s)
    \/ \E s \in SessionIds : GumRejects(s)
    \/ \E s \in SessionIds : OnError(s)
    \/ \E s \in SessionIds : OnClose(s)
    \/ \E s \in SessionIds : ConnectRejects(s)
    \/ \E s \in SessionIds, m \in LifecycleMessages : OnMessage(s, m)

Spec == Init /\ [][Next]_vars

\* One session and every kind of transcript message
NextTranscript ==
    \/ StartConversation(TranscriptSessions)
    \/ EndClick
    \/ \E s \in SessionIds : OnOpen(s)
    \/ \E s \in SessionIds, m \in TranscriptMessages : OnMessage(s, m)

SpecTranscript == Init /\ [][NextTranscript]_vars

\* One connection that stays open: audio and interruption messages, the
\* audio clock and the ended events of the buffer sources
NextPlayback ==
    \/ StartConversation(MaxSessions)
    \/ \E s \in SessionIds : OnOpen(s)
    \/ \E s \in SessionIds, m \in PlaybackMessages : OnMessage(s, m)
    \/ DecodeDone
    \/ Tick
    \/ \E b \in 1..Len(buffers) : SourceEnded(b)

SpecPlayback == Init /\ [][NextPlayback]_vars

\* Sessions that are ended and started again, with transcript and audio
\* messages in them
NextRestart ==
    \/ StartConversation(MaxSessions)
    \/ EndClick
    \/ \E s \in SessionIds : OnOpen(s)
    \/ \E s \in SessionIds : OnClose(s)
    \/ \E s \in SessionIds, m \in RestartMessages : OnMessage(s, m)
    \/ DecodeDone

SpecRestart == Init /\ [][NextRestart]_vars

\* Sessions whose capture pipelines deliver frames, ended and started again
NextCapture ==
    \/ StartConversation(MaxSessions)
    \/ EndClick
    \/ \E s \in SessionIds : OnOpen(s)
    \/ \E s \in SessionIds : GumResolves(s)
    \/ \E s \in SessionIds : ConnectRejects(s)
    \/ \E p \in SessionIds : AudioProcess(p)

SpecCapture == Init /\ [][NextCapture]_vars

\* generateContentWithRetry alone, called by any of its callers
NextRetry ==
    \/ GenerateContentWithRetry
    \/ \E response \in {Response("json", EmptyObject)} : AttemptSucceeds(response)
    \/ \E error \in RemoteErrors : AttemptFails(error)
    \/ BackoffElapses

SpecRetry == Init /\ [][NextRetry]_vars

\* analyzeAudio over payloads that differ in dimensions and fluency
NextScore ==
    \/ \E file \in ScoreFiles : AnalyzeAudio(file)
    \/ FileRead
    \/ FileReadFails
    \/ \E response \in ScoreResponses : AttemptSucceeds(response)
    \/ \E error \in ServiceErrors : AttemptFails(error)
    \/ BackoffElapses
    \/ AnalyzeReturns
    \/ AnalyzeCatches

SpecScore == Init /\ [][NextScore]_vars

\* analyzeAudio over payloads that differ in the transcript, and files that
\* differ in duration
NextTime ==
    \/ \E file \in TimeFiles : AnalyzeAudio(file)
    \/ FileRead
    \/ \E response \in TimeResponses : AttemptSucceeds(response)
    \/ \E error \in ServiceErrors : AttemptFails(error)
    \/ BackoffElapses
    \/ AnalyzeReturns
    \/ AnalyzeCatches

SpecTime == Init /\ [][NextTime]_vars

\* analyzeAudio over transcripts that split the duration unevenly
NextShare ==
    \/ \E file \in ShareFiles : AnalyzeAudio(file)
    \/ FileRead
    \/ \E response \in ShareResponses : AttemptSucceeds(response)
    \/ \E error \in ServiceErrors : AttemptFails(error)
    \/ BackoffElapses
    \/ AnalyzeReturns
    \/ AnalyzeCatches

SpecShare == Init /\ [][NextShare]_vars

\* What the service does for the handler of App that awaits it
Service ==
    \/ FileRead
    \/ FileReadFails
    \/ \E response \in AppAnalysisResponses :
          job.fn = "analyzeAudio" /\ AttemptSucceeds(response)
    \/ \E response \in AppComparisonResponses :
          job.fn = "generateComparisonReport" /\ AttemptSucceeds(response)
    \/ \E error \in ServiceErrors : AttemptFails(error)
    \/ BackoffElapses
    \/ AnalyzeReturns
    \/ AnalyzeCatches
    \/ CompareReturns
    \/ CompareCatches

\* The "Track Improvement" tab
NextComparison ==
    \/ \E file \in AppFiles : SetOldFile(file)
    \/ \E file \in AppFiles : SetNewFile(file)
    \/ HandleComparisonFiles
    \/ ComparisonSettles
    \/ HandleReset
    \/ Service

SpecComparison == Init /\ [][NextComparison]_vars

\* The "Analyze File" tab
SingleFile ==
    \/ \E file \in SingleFiles : HandleSingleFile(file)
    \/ SingleFileSettles
    \/ HandleReset

ServiceOfSingleFile ==
    \/ FileRead
    \/ FileReadFails
    \/ \E response \in AppAnalysisResponses \cup DegenerateResponses : AttemptSucceeds(response)
    \/ \E error \in ServiceErrors : AttemptFails(error)
    \/ BackoffElapses
    \/ AnalyzeReturns
    \/ AnalyzeCatches

NextSingleFile == SingleFile \/ ServiceOfSingleFile

SpecSingleFile == Init /\ [][NextSingleFile]_vars

\* Every event that can happen does happen: the reader and the remote
\* endpoint answer, timers fire, continuations run
SpecSingleFileFair ==
    SpecSingleFile /\ WF_vars(SingleFileSettles) /\ WF_vars(ServiceOfSingleFile)

\* generateComparisonReport
NextCompare ==
    \/ GenerateComparisonReport
    \/ \E response \in ComparisonResponses : AttemptSucceeds(response)
    \/ \E error \in RemoteErrors : AttemptFails(error)
    \/ BackoffElapses
    \/ CompareReturns
    \/ CompareCatches

SpecCompare == Init /\ [][NextCompare]_vars

\* The two codecs applied to byte strings and to frames of samples
NextCodec ==
    \/ \E bytes \in BoundedSeq(ByteValues, MaxBytes) : Encode(bytes)
    \/ Decode
    \/ \E data \in BoundedSeq(SampleValues, MaxFrame) : CreateBlob(data)
    \/ DecodeAudioData

SpecCodec == Init /\ [][NextCodec]_vars

\* ------------------------------------------------------------ lifecycle claims
Terminal == {"ended", "error"}

\* What endConversation is specified to leave behind
SessionCloseRequested == sessionPromise # 0 /\ sessions[sessionPromise].closeRequested = 1
PipelineDisconnected == wired = {}
MicrophoneReleased == liveStreams = {}
ContextsClosed ==
    /\ inputAudioContext # 0 /\ <<"in", inputAudioContext>> \notin openContexts
    /\ outputAudioContext # 0 /\ <<"out", outputAudioContext>> \notin openContexts
TornDown == SessionCloseRequested /\ PipelineDisconnected /\ MicrophoneReleased /\ ContextsClosed

\* C1: the conversation state follows idle -> connecting -> connected ->
\* {ended | error}: connected is entered only from connecting and only by
\* onopen, and a state in {ended, error} is left only by a startConversation
\* call, which sets connecting.
C1_StateMachine ==
    [][ /\ (conversationState' = "connected" /\ conversationState # "connected")
            => (conversationState = "connecting" /\ last'.op = "onopen")
        /\ (conversationState \in Terminal /\ conversationState' \notin Terminal)
            => (conversationState' = "connecting" /\ last'.op = "start") ]_vars

\* C2: when onerror fires while the controller is connected, the teardown
\* has run and the state is error once the callback has finished.
C2_ErrorReported ==
    (last.op = "onerror" /\ last.from = "connected")
        => (conversationState = "error" /\ SessionCloseRequested /\ ContextsClosed)

\* C3: when getUserMedia fails inside onopen the controller goes to error
\* instead of staying connected, and the acquisition is not retried for that
\* session.
C3_MicFailureIsError ==
    [][ /\ (last'.op = "gumRejects" /\ last'.from = "connected") => conversationState' = "error"
        /\ \A s \in SessionIds : sessions[s].gum = "failed" => sessions'[s].gum = "failed" ]_vars

\* C4: when the connection promise rejects while connecting, the controller
\* goes to error and has run the teardown of a normal end.
C4_OpenFailureIsError ==
    (last.op = "connectRejects" /\ last.from = "connecting")
        => (conversationState = "error" /\ TornDown)

\* C5: after endConversation was called in connecting or connected, session
\* close is requested, the capture pipeline is disconnected, every
\* microphone track is stopped, both contexts are closed, the state is ended.
C5_EndTearsDown ==
    (last.op \in {"end", "unmount"} /\ last.from \in {"connecting", "connected"})
        => (TornDown /\ conversationState = "ended")

\* C6: at most one capture stream is held at any time.
C6_OneCaptureStream == Cardinality(liveStreams) <= 1

\* ----------------------------------------------------------- transcript claims
SpeakerOf(m) == IF m.inputTranscription # "none" THEN "User" ELSE "AI"

\* C7: k >= 1 consecutive fragments of one speaker followed by a
\* turn-complete signal add exactly one turn to the transcript; it is final,
\* has that speaker, and its text is the fragments in arrival order.
C7_Coalesced ==
    run.closed =>
        /\ Len(transcript) = run.base + 1
        /\ transcript[Len(transcript)] =
               [speaker |-> run.speaker, text |-> run.text, isFinal |-> TRUE]

\* C8: a turn-complete signal marks the most recent turn final, and the next
\* fragment of the same speaker after it starts a new turn and leaves the
\* completed one alone.
C8_TurnComplete ==
    [][ last'.op = "msg" =>
          /\ (last'.m.turnComplete /\ transcript' # <<>>)
                => transcript'[Len(transcript')].isFinal
          /\ (HasFragment(last'.m) /\ run.closed /\ run.speaker = SpeakerOf(last'.m))
                => /\ Len(transcript') = Len(transcript) + 1
                   /\ SubSeq(transcript', 1, Len(transcript)) = transcript ]_vars

\* ------------------------------------------------------------- playback claims
\* The handler of a message carrying the interruption signal has finished
InterruptionHandled ==
    \/ last.op = "msg" /\ last.m.interrupted /\ last.m.audio = 0
    \/ last.op = "decoded" /\ last.m.interrupted

\* C9: on an interruption signal every tracked playback handle is stopped,
\* the handle set is empty afterwards and nextStartTime is 0.
C9_Interruption ==
    [][ InterruptionHandled' =>
          /\ \A b \in sources : buffers'[b].status = "stopped"
          /\ sources' = {}
          /\ nextStartTime' = 0 ]_vars

BufferEnd(b) == buffers[b].start + buffers[b].dur

\* Buffers i < j of one stretch of playback do not overlap
NoOverlap ==
    \A i, j \in 1..Len(buffers) :
        (i < j /\ buffers[i].epoch = buffers[j].epoch) => BufferEnd(i) <= buffers[j].start

\* A buffer starts where the previous one of its stretch ends, unless the
\* audio clock had passed that point
BackToBack ==
    \A j \in 2..Len(buffers) :
        buffers[j - 1].epoch = buffers[j].epoch =>
            \/ buffers[j].start = BufferEnd(j - 1)
            \/ buffers[j].at > BufferEnd(j - 1)

\* C10: without an interruption or a restart in between, the scheduled
\* intervals [start, start + duration) never overlap, each buffer starts
\* where the previous one ends unless the audio clock has passed the cursor,
\* and nextStartTime never decreases; handlers may overlap at the decode await.
C10_Gapless ==
    [][ /\ NoOverlap'
        /\ BackToBack'
        /\ nextStartTime' < nextStartTime
              => (last'.op \in {"start", "startThrows"} \/ last'.m.interrupted) ]_vars

\* Two buffers back to back, the second one from a handler that began while
\* the first one's was suspended at the decode await
C10_Witness ==
    \E j \in 2..Len(buffers) :
        /\ buffers[j - 1].epoch = buffers[j].epoch
        /\ buffers[j].behind > 0
        /\ buffers[j].start = BufferEnd(j - 1)
        /\ buffers[j].dur # buffers[j - 1].dur

\* ---------------------------------------------------------------- retry claims
Attempts == Len(retry.outcomes)
LastOutcome == retry.outcomes[Attempts]
TransientByStatus(error) ==
    error.status \in {503, 429, 500} \/ error.code \in {503, 429, 500}
Permanent(error) == ~isOverloaded(error) /\ ~isRateLimited(error) /\ ~isInternalError(error)

\* C11: generateContentWithRetry makes at most three attempts.  A failure of
\* attempt 1 or 2 whose status or code is 503, 429 or 500 does not end the
\* call: a wait and another attempt follow.  A success ends the call on the
\* attempt that succeeded and its response is what the call returns.  A
\* failure of attempt 3 is thrown to the caller as it is.
C11_AtMostThreeAttempts ==
    /\ Attempts <= 3
    /\ \A k \in 1..(Attempts - 1) : ~retry.outcomes[k].ok
    /\ retry.pc = "attempt" => Attempts = retry.i /\ Attempts < 3
    /\ retry.pc = "backoff" => Attempts = retry.i + 1 /\ Attempts < 3
    /\ retry.pc = "returned" => Attempts > 0 /\ LastOutcome.ok /\ retry.value = LastOutcome.response
    /\ retry.pc = "thrown" =>
          /\ Attempts > 0 /\ ~LastOutcome.ok /\ retry.error = LastOutcome.error
          /\ TransientByStatus(LastOutcome.error) => Attempts = 3
    /\ \A k \in 1..Attempts :
          (~retry.outcomes[k].ok /\ TransientByStatus(retry.outcomes[k].error) /\ k < 3)
             => k < Attempts \/ retry.pc \in {"backoff", "attempt"}

C11_Witness ==
    /\ retry.pc = "thrown" /\ Attempts = 3
    /\ \A k \in 1..3 : TransientByStatus(retry.outcomes[k].error)
    /\ retry.error = Internal500

\* C12: an error that the service classifies as none of overloaded (503),
\* rate limited (429) and internal (500) ends the call on the attempt it
\* occurs on: it is thrown as it is, no attempt follows it and no delay is
\* waited after it.
C12_PermanentNotRetried ==
    \A k \in 1..Attempts :
        (~retry.outcomes[k].ok /\ Permanent(retry.outcomes[k].error)) =>
            /\ k = Attempts
            /\ retry.pc = "thrown"
            /\ retry.error = retry.outcomes[k].error
            /\ Len(retry.delays) = k - 1

C12_Witness ==
    /\ retry.pc = "thrown" /\ Attempts = 2
    /\ retry.outcomes[1].error = RateLimited429
    /\ retry.error = BadRequest400
    /\ retry.delays = <<1000>>

\* -------------------------------------------------------------- analysis claims
Returned(fn) == job.fn = fn /\ job.pc = "done"
Rejected(fn) == job.fn = fn /\ job.pc = "failed"

CanonicalEntries(dimensions) ==
    {d \in 1..Len(dimensions) :
        dimensions[d].name \in {"Clarity", "Language Proficiency", "Conciseness"}}

RECURSIVE ScoreSum(_, _)
ScoreSum(dimensions, entries) ==
    IF entries = {} THEN 0
    ELSE LET d == CHOOSE x \in entries : TRUE
         IN  dimensions[d].score + ScoreSum(dimensions, entries \ {d})

\* value is a multiple of 1/unit nearest to num / den (all numbers in units)
Nearest(value, num, den) ==
    /\ 2 * (value * den - num) <= den
    /\ 2 * (num - value * den) <= den

\* C13: the overallScore analyzeAudio returns is the mean, rounded to two
\* decimals, of the scores of the entries of the returned dimensions named
\* Clarity, Language Proficiency or Conciseness, and 0 when there is no such
\* entry; an overallScore property of the payload does not reach the result.
C13_OverallScore ==
    Returned("analyzeAudio") =>
        LET dimensions == job.result.dimensions
            entries == CanonicalEntries(dimensions)
        IN  /\ "overallScore" \in job.result.has
            /\ IF entries = {}
               THEN job.result.overallScore = 0
               ELSE Nearest(job.result.overallScore, ScoreSum(dimensions, entries),
                            Cardinality(entries))

C13_Witness ==
    /\ Returned("analyzeAudio")
    /\ "overallScore" \in job.response.body.has
    /\ job.response.body.overallScore # job.result.overallScore
    /\ Cardinality(CanonicalEntries(job.result.dimensions)) = 3
    /\ job.result.overallScore = 467

SecondsSum(distribution) ==
    [num |-> distribution.primarySpeaker.seconds.num * distribution.others.seconds.den
             + distribution.others.seconds.num * distribution.primarySpeaker.seconds.den,
     den |-> distribution.primarySpeaker.seconds.den * distribution.others.seconds.den]

\* C14: when the turn durations of the payload add up to more than a positive
\* audio duration, the two speaking times returned are the two sums multiplied
\* by audioDuration / totalSpoken: they add up to no more than the audio
\* duration and keep the ratio of the sums.  Turns User 0-30 and Other 25-40
\* with a 40 s audio give 26.67 s (67 %) and 13.33 s (33 %).
C14_Normalised ==
    Returned("analyzeAudio") =>
        LET payload == job.response.body
            audioDuration == getAudioDuration(job.file)
            distribution == job.result.speakingTimeDistribution
            primary == distribution.primarySpeaker.seconds
            others == distribution.others.seconds
        IN  /\ (audioDuration > 0 /\ totalSpoken(payload) > audioDuration) =>
                  /\ primary.num * totalSpoken(payload)
                        = primarySeconds(payload) * audioDuration * primary.den
                  /\ others.num * totalSpoken(payload)
                        = otherSeconds(payload) * audioDuration * others.den
                  /\ SecondsSum(distribution).num <= audioDuration * SecondsSum(distribution).den
                  /\ primary.num * others.den * otherSeconds(payload)
                        = others.num * primary.den * primarySeconds(payload)
            /\ (payload.conversation = ExampleConversation /\ audioDuration = 40) =>
                  /\ Nearest(2667, 100 * primary.num, primary.den)
                  /\ Nearest(1333, 100 * others.num, others.den)
                  /\ distribution.primarySpeaker.percentage = 67
                  /\ distribution.others.percentage = 33

C14_Witness ==
    /\ Returned("analyzeAudio")
    /\ job.response.body.conversation = ExampleConversation
    /\ getAudioDuration(job.file) = 40
    /\ job.result.speakingTimeDistribution.primarySpeaker.percentage = 67
    /\ job.result.speakingTimeDistribution.others.percentage = 33

\* percentage is min(100, round(seconds / basis * 100))
IsPercentage(share, basis) ==
    /\ share.percentage \in 0..100
    /\ share.percentage < 100 =>
          Nearest(share.percentage, 100 * share.seconds.num, share.seconds.den * basis)
    /\ share.percentage = 100 =>
          2 * 100 * share.seconds.num >= 199 * share.seconds.den * basis

\* C15: each speaking-time percentage returned is an integer from 0 to 100,
\* equal to min(100, round(seconds / basis * 100)) where the basis is the
\* audio duration when that is positive and 1 otherwise; an audio duration of
\* 0 does not make the computation divide by zero.
C15_Percentage ==
    Returned("analyzeAudio") =>
        LET audioDuration == getAudioDuration(job.file)
            basis == IF audioDuration > 0 THEN audioDuration ELSE 1
            distribution == job.result.speakingTimeDistribution
        IN  /\ IsPercentage(distribution.primarySpeaker, basis)
            /\ IsPercentage(distribution.others, basis)

C15_Witness ==
    /\ Returned("analyzeAudio")
    /\ getAudioDuration(job.file) = 0
    /\ job.result.speakingTimeDistribution.primarySpeaker.seconds = [num |-> 30, den |-> 1]
    /\ job.result.speakingTimeDistribution.primarySpeaker.percentage = 100
    /\ job.result.speakingTimeDistribution.others.percentage = 0

\* C16: analyzeAudio issues two or three requests for the same audio, all of
\* them before it awaits any.
C16_FanOut ==
    (job.fn = "analyzeAudio" /\ job.pc \in {"requesting", "done"}) => job.requests \in 2..3

\* C16 (amended): analyzeAudio issues one request per call, once the file is
\* encoded and the duration probed; no request is issued while the two
\* helpers run or after the one request settled.
C16_SinglePass ==
    job.fn = "analyzeAudio" =>
        /\ job.pc = "reading" => job.requests = 0 /\ retry.pc = "idle"
        /\ job.pc = "requesting" => job.requests = 1 /\ retry.pc # "idle"
        /\ job.pc = "done" => job.requests = 1 /\ retry.pc = "idle"
        /\ job.pc = "failed" => job.requests <= 1 /\ retry.pc = "idle"

C16_Witness ==
    /\ Returned("analyzeAudio")
    /\ job.requests = 1
    /\ job.response.text = "json"
    /\ Len(job.result.dimensions) = 3

Present(property) == job.response.text = "json" /\ property \in job.response.body.has

NameScores(dimensions, name) == {d \in 1..Len(dimensions) : dimensions[d].name = name}

\* C17: the dimensions returned hold one entry per distinct name, whose score
\* is the mean of the scores of that name rounded to two decimals, and the
\* fluency returned is the mean rounded to the nearest integer.
C17_Merged ==
    Returned("analyzeAudio") =>
        LET dimensions == job.result.dimensions
            seen == IF Present("dimensions") THEN job.response.body.dimensions ELSE <<>>
            fluency == IF Present("fluencySpeechRatePercentage")
                       THEN job.response.body.fluencySpeechRatePercentage ELSE 0
        IN  /\ \A d, e \in 1..Len(dimensions) : dimensions[d].name = dimensions[e].name => d = e
            /\ {dimensions[d].name : d \in 1..Len(dimensions)} = {seen[d].name : d \in 1..Len(seen)}
            /\ \A d \in 1..Len(dimensions) :
                  Nearest(dimensions[d].score,
                          ScoreSum(seen, NameScores(seen, dimensions[d].name)),
                          Cardinality(NameScores(seen, dimensions[d].name)))
            /\ job.result.fluencySpeechRatePercentage % 100 = 0
            /\ Nearest(job.result.fluencySpeechRatePercentage \div 100, fluency, 100)

\* C17 (amended): the dimensions returned are the entries of the one response,
\* entry for entry, and an empty list when it has none; the fluency returned
\* is the value of the response as it is, and 0 when it has none.  Entries of
\* one name are not merged and nothing is rounded.
C17_Verbatim ==
    Returned("analyzeAudio") =>
        /\ job.result.dimensions =
              IF Present("dimensions") THEN job.response.body.dimensions ELSE <<>>
        /\ job.result.fluencySpeechRatePercentage =
              IF Present("fluencySpeechRatePercentage")
              THEN job.response.body.fluencySpeechRatePercentage ELSE 0

C17_Witness ==
    /\ Returned("analyzeAudio")
    /\ \E d, e \in 1..Len(job.result.dimensions) :
          /\ d # e
          /\ job.result.dimensions[d].name = job.result.dimensions[e].name
          /\ job.result.dimensions[d].score # job.result.dimensions[e].score
    /\ job.result.fluencySpeechRatePercentage = 8750

\* C18: every rejection of analyzeAudio carries the fixed 'high traffic' error,
\* whichever step failed, and leaves no result.
C18_AlwaysAnalysisFailure ==
    Rejected("analyzeAudio") => job.error = AnalysisFailure /\ job.result = NoResult

\* C19: analyzeAudio returns a result only for a response whose text is the
\* JSON of an object that has every required property; for a response
\* without text, with blank text, with text that is not JSON or with an object
\* that lacks a required property it rejects.
C19_NoDefaults ==
    Returned("analyzeAudio") =>
        job.response.text = "json" /\ AnalysisFields \subseteq job.response.body.has

\* C20: generateComparisonReport returns only the object the response text
\* holds, and rejects with its fixed error when the request fails and when
\* the response has no text, blank text or text that is not JSON.
C20_NoFallback ==
    /\ Returned("generateComparisonReport") =>
          job.response.text = "json" /\ job.result = job.response.body /\ job.result.has # {}
    /\ Rejected("generateComparisonReport") => job.error = ComparisonFailure

\* ----------------------------------------------------------------- codec claims
Distance(a, b) == IF a >= b THEN a - b ELSE b - a

\* C21: a frame of samples from -1.0 to 1.0, both ends included, that is
\* encoded by createBlob and decoded by decodeAudioData comes back with the
\* same number of samples, each within 1/32768 of the sample that went in.
C21_PcmRoundTrip ==
    (codec.op = "createBlob" /\ codec.decoded) =>
        /\ Len(codec.outData) = Len(codec.data)
        /\ \A i \in 1..Len(codec.data) : Distance(codec.outData[i], codec.data[i]) <= 4

\* C22: a byte string that is encoded by encode and decoded by decode comes
\* back with the same length and the same bytes in the same order.
C22_TextRoundTrip ==
    (codec.op = "encode" /\ codec.decoded) => codec.outBytes = codec.bytes

C22_Witness ==
    /\ codec.op = "encode" /\ codec.decoded
    /\ Len(codec.bytes) = 4
    /\ codec.bytes[4] = 255
    /\ codec.text.pad = 2
    /\ codec.outBytes = codec.bytes

\* ------------------------------------------------------- more lifecycle claims
\* C23: when onclose fires in a state other than ended, the state is ended
\* once the callback has run, in the first session and in every later one.
C23_CloseEnds ==
    (last.op = "onclose" /\ last.from # "ended") => conversationState = "ended"

TeardownOps == {"end", "unmount", "onerror"}

\* C24: an endConversation call that runs after a teardown has closed the
\* audio contexts closes no context that is closed already and requests no
\* close of a session whose close was requested already, and leaves the
\* state ended.
C24_Idempotent ==
    [][ (last'.op \in TeardownOps /\ ContextsClosed) =>
           /\ ClosedByEnd \subseteq openContexts
           /\ sessionPromise # 0 => sessions[sessionPromise].closeRequested = 0
           /\ conversationState' = "ended" ]_vars

\* C25: a message handled while the state is not connected changes neither
\* the transcript nor nextStartTime nor the set of playback handles.
C25_OnlyWhileConnected ==
    [][ (last'.op \in {"msg", "decoded"} /\ conversationState # "connected") =>
           /\ transcript' = transcript
           /\ nextStartTime' = nextStartTime
           /\ sources' = sources ]_vars

\* C26: a message leaves every final turn of the transcript as it is, and the
\* transcript never holds a non-final turn followed by a turn of the same
\* speaker.
C26_FinalIsImmutable ==
    [][ /\ last'.op = "msg" =>
              \A i \in 1..Len(transcript) :
                  transcript[i].isFinal =>
                      (i <= Len(transcript') /\ transcript'[i] = transcript[i])
        /\ \A i \in 1..(Len(transcript') - 1) :
              ~(~transcript'[i].isFinal /\ transcript'[i].speaker = transcript'[i + 1].speaker)
      ]_vars

C26_Witness ==
    /\ last.op = "msg"
    /\ \E i \in 1..(Len(transcript) - 1) :
          /\ transcript[i].isFinal
          /\ transcript[i + 1].speaker = transcript[i].speaker
          /\ ~transcript[i + 1].isFinal

\* C27: a buffer is started at the larger of nextStartTime and the audio
\* clock as they are when it is started, hence not before the audio clock,
\* and nextStartTime is then that start time plus the duration of the buffer.
C27_StartAtMax ==
    [][ last'.op = "decoded" =>
           LET b == buffers'[Len(buffers')]
           IN  /\ b.start = Max(nextStartTime, clock)
               /\ b.start >= clock
               /\ ~last'.m.interrupted => nextStartTime' = b.start + b.dur ]_vars

\* C28: the set of playback handles holds exactly the buffers that were
\* started and have neither fired their ended event nor been stopped by an
\* interruption.
C28_HandleTracking ==
    sources = {b \in 1..Len(buffers) : buffers[b].status = "playing"}

C28_Witness ==
    /\ \E b \in 1..Len(buffers) : buffers[b].status = "ended" /\ b \notin sources
    /\ \E b \in sources : buffers[b].status = "playing"

\* C29: startConversation runs in idle, ended or error; when it has run the
\* state is connecting, the transcript is empty, nextStartTime is 0, the set
\* of playback handles is empty and the new session is not open yet.
C29_StartResets ==
    [][ last'.op = "start" =>
           /\ conversationState \in {"idle", "ended", "error"}
           /\ conversationState' = "connecting"
           /\ transcript' = <<>>
           /\ nextStartTime' = 0
           /\ sources' = {}
           /\ sessions'[sessionPromise'].phase = "opening" ]_vars

\* Practice Again after a session in which audio was scheduled
C29_Witness ==
    /\ last.op = "start" /\ last.from = "ended"
    /\ \E b \in 1..Len(buffers) : buffers[b].status = "playing"
    /\ transcript = <<>> /\ nextStartTime = 0 /\ sources = {}

\* ----------------------------------------------------------- speaking-time claims
Contribution(turn) == IF turn.endTime > turn.startTime THEN turn.endTime - turn.startTime ELSE 0

RECURSIVE Contributions(_, _)
Contributions(turns, which) ==
    IF which = {} THEN 0
    ELSE LET t == CHOOSE x \in which : TRUE
         IN  Contribution(turns[t]) + Contributions(turns, which \ {t})

\* seconds is sum scaled by audioDuration / total when total exceeds a
\* positive audioDuration, and sum otherwise
IsShareOf(seconds, sum, total, audioDuration) ==
    IF audioDuration > 0 /\ total > audioDuration
    THEN seconds.num * total = sum * audioDuration * seconds.den
    ELSE seconds.num = sum * seconds.den

\* C30: every turn adds max(0, endTime - startTime) seconds to one of two
\* sums, the primary one when its speaker is primarySpeakerLabel and the
\* other one otherwise; a turn that ends before it starts adds 0; an empty
\* transcript gives 0 seconds and 0 % for both.
C30_SpeakingSums ==
    Returned("analyzeAudio") =>
        LET payload == job.response.body
            turns == payload.conversation
            mine == {t \in 1..Len(turns) : turns[t].speaker = payload.primarySpeakerLabel}
            rest == (1..Len(turns)) \ mine
            total == Contributions(turns, 1..Len(turns))
            distribution == job.result.speakingTimeDistribution
        IN  /\ IsShareOf(distribution.primarySpeaker.seconds, Contributions(turns, mine),
                         total, getAudioDuration(job.file))
            /\ IsShareOf(distribution.others.seconds, Contributions(turns, rest),
                         total, getAudioDuration(job.file))
            /\ turns = <<>> =>
                  /\ distribution.primarySpeaker.seconds.num = 0
                  /\ distribution.others.seconds.num = 0
                  /\ distribution.primarySpeaker.percentage = 0
                  /\ distribution.others.percentage = 0

C30_Witness ==
    /\ Returned("analyzeAudio")
    /\ job.response.body.conversation =
          <<[speaker |-> "User", startTime |-> 0, endTime |-> 30],
            [speaker |-> "Other", startTime |-> 40, endTime |-> 25]>>
    /\ job.result.speakingTimeDistribution.primarySpeaker.seconds = [num |-> 30, den |-> 1]
    /\ job.result.speakingTimeDistribution.others.seconds = [num |-> 0, den |-> 1]

\* ----------------------------------------------------------- backoff claims
Exhausted == retry.pc = "thrown" /\ Attempts = Retries /\ TransientByStatus(retry.error)

SentFrames == {capture.sent[k].n : k \in 1..Len(capture.sent)}
WaitingFrames == {capture.waiting[k].n : k \in 1..Len(capture.waiting)}

\* C32: every frame the capture callback delivered has been sent with
\* sendRealtimeInput exactly once, or will be when the pending session handle
\* resolves; frames are sent in the order they were captured; no frame is
\* sent to a session whose handle has not resolved.
C32_FramesUpstream ==
    /\ \A n \in 1..capture.frames : n \in SentFrames \cup WaitingFrames
    /\ \A j, k \in 1..Len(capture.sent) :
          j < k => capture.sent[j].n < capture.sent[k].n
    /\ \A k \in 1..Len(capture.sent) : capture.sent[k].session \in capture.resolved

\* ------------------------------------------------------- interleaving claims
StaleOps == {"onopen", "msg", "decoded", "onerror", "onclose", "gumResolves", "gumRejects"}

\* C33: a callback, or the continuation of a getUserMedia call, of a session
\* that is not the one the last startConversation call opened changes neither
\* the conversation state nor the transcript nor the capture wiring nor the
\* playback schedule.
C33_StaleIsolation ==
    [][ (last'.op \in StaleOps /\ last'.s # 0 /\ last'.s < sessionPromise) =>
           /\ conversationState' = conversationState
           /\ transcript' = transcript
           /\ mediaStream' = mediaStream /\ pipelineRef' = pipelineRef /\ wired' = wired
           /\ nextStartTime' = nextStartTime /\ sources' = sources ]_vars

\* C34: while the controller is in ended or error, or is unmounted, no
\* microphone stream is held.
C34_NoMicrophoneLeak ==
    (conversationState \in {"ended", "error"} \/ ~mounted) => liveStreams = {}

\* C35: a handler that was suspended at the decode await while an
\* interruption was handled does not start its buffer afterwards.
C35_BargeIn ==
    [][ last'.op = "decoded" => ~Head(pending).overtaken ]_vars

\* C36: when the probed duration is positive the two percentages analyzeAudio
\* reports add up to 100 at most.
C36_AtMostHundred ==
    (Returned("analyzeAudio") /\ getAudioDuration(job.file) > 0) =>
        job.result.speakingTimeDistribution.primarySpeaker.percentage
          + job.result.speakingTimeDistribution.others.percentage <= 100

\* ---------------------------------------------------------------- App claims
\* C37: handleComparisonFiles requests the older analysis, then the newer
\* one, then the comparison, each only when the results of the earlier ones
\* are stored; once a step has failed the state is error, comparisonResult
\* is null and nothing further was requested; in success the two analyses
\* and the comparison are all set.
C37_ComparisonOrder ==
    LET stored == (IF app.oldAnalysisResult # Null THEN 1 ELSE 0)
                   + (IF app.newAnalysisResult # Null THEN 1 ELSE 0)
    IN  /\ app.requested \in {<<>>, <<"old">>, <<"old", "new">>, <<"old", "new", "compare">>}
        /\ Len(app.requested) >= 2 => app.oldAnalysisResult # Null
        /\ Len(app.requested) = 3 =>
              app.oldAnalysisResult # Null /\ app.newAnalysisResult # Null
        /\ app.newAnalysisResult # Null => app.oldAnalysisResult # Null
        /\ app.handler = "comparison" =>
              /\ app.appState = "loading" /\ app.comparisonResult = Null
              /\ Len(app.requested) = stored + 1
        /\ app.appState = "error" =>
              /\ app.comparisonResult = Null
              /\ app.handler = "none"
              /\ Len(app.requested) = stored + 1
        /\ app.appState = "success" =>
              /\ app.oldAnalysisResult # Null /\ app.newAnalysisResult # Null
              /\ app.comparisonResult # Null
              /\ app.requested = <<"old", "new", "compare">>

C37_Witness ==
    /\ app.appState = "success"
    /\ app.requested = <<"old", "new", "compare">>
    /\ app.oldAnalysisResult # Null /\ app.newAnalysisResult # Null
    /\ app.comparisonResult # Null

\* A failure of the second step: the first result is stored, the comparison
\* was never requested
C37_FailedNewer ==
    /\ app.appState = "error"
    /\ app.requested = <<"old", "new">>
    /\ app.oldAnalysisResult # Null /\ app.newAnalysisResult = Null

\* C38: a handleSingleFile call that has set loading is followed by success
\* with an analysisResult or by error with a message that is not empty.
C38_LeavesLoading ==
    (app.appState = "loading") ~>
        \/ app.appState = "success" /\ app.analysisResult # Null
        \/ app.appState = "error" /\ app.error # Null /\ app.error # Some("")

TypeOK ==
    /\ impl \in Impls
    /\ mounted \in BOOLEAN
    /\ conversationState \in ConversationState
    /\ sessionPromise \in 0..(MaxSessions + 1)
    /\ \A s \in SessionIds :
          /\ sessions[s].phase \in SessionPhase
          /\ sessions[s].gum \in GumStatus
          /\ sessions[s].captured \in ConversationState
    /\ liveStreams \subseteq SessionIds
    /\ wired \subseteq SessionIds
    /\ \A i \in 1..Len(transcript) :
          /\ transcript[i].speaker \in Speakers
          /\ transcript[i].isFinal \in BOOLEAN
    /\ sources \subseteq 1..Len(buffers)
    /\ Len(buffers) + Len(pending) <= MaxBuffers
    /\ clock \in 0..MaxClock
    /\ nextStartTime \in Nat
    /\ retry.pc \in {"idle", "attempt", "backoff", "returned", "thrown"}
    /\ retry.i \in 0..Retries
    /\ Len(retry.delays) <= Len(retry.outcomes)
    /\ job.fn \in {"none", "analyzeAudio", "generateComparisonReport"}
    /\ job.pc \in {"idle", "reading", "requesting", "done", "failed"}
    /\ codec.op \in {"none", "encode", "createBlob"}
    /\ codec.decoded \in BOOLEAN
    /\ \A i \in 1..Len(codec.text.digits) : codec.text.digits[i] \in 0..63
    /\ \A i \in 1..Len(codec.outBytes) : codec.outBytes[i] \in 0..255
    /\ capture.frames \in 0..MaxCaptured
    /\ capture.resolved \subseteq SessionIds
    /\ Len(capture.sent) + Len(capture.waiting) + Cardinality(capture.lost) = capture.frames
    /\ app.appState \in {"idle", "loading", "success", "error"}
    /\ app.handler \in {"none", "single", "comparison"}
    /\ app.step \in {"none", "analysis", "old", "new", "compare"}
    /\ Len(app.requested) <= 3
====
